---- MODULE Spec2Model ----
\* A model of the guided-questionnaire bot of src/app.py: the Flask handlers
\* index (GET / and POST /) and complete (GET /complete), the question
\* generator ask_openai with its validators is_forbidden and is_duplicate, and
\* the two database tables ChatSession and QAItem.
EXTENDS Integers, Sequences, FiniteSets, TLC

\* --------------------------------------------------------------------------
\* Texts.  A text is a TLA+ string; CharTable gives the characters of every
\* text the model uses, so that lower(), strip(), the substring test and the
\* fuzzy ratio are computed on characters as the code computes them.
\* (The fallback sentence is written with an ASCII apostrophe.)
\* --------------------------------------------------------------------------
CharTable ==
       "What is your product and what does it do?" :> <<"W", "h", "a", "t", " ", "i", "s", " ", "y", "o", "u", "r", " ", "p", "r", "o", "d", "u", "c", "t", " ", "a", "n", "d", " ", "w", "h", "a", "t", " ", "d", "o", "e", "s", " ", "i", "t", " ", "d", "o", "?">>
    @@ "Thank you. That's all the questions we needed for now." :> <<"T", "h", "a", "n", "k", " ", "y", "o", "u", ".", " ", "T", "h", "a", "t", "'", "s", " ", "a", "l", "l", " ", "t", "h", "e", " ", "q", "u", "e", "s", "t", "i", "o", "n", "s", " ", "w", "e", " ", "n", "e", "e", "d", "e", "d", " ", "f", "o", "r", " ", "n", "o", "w", ".">>
    @@ " Your MOQ? " :> <<" ", "Y", "o", "u", "r", " ", "M", "O", "Q", "?", " ">>
    @@ "Your MOQ?" :> <<"Y", "o", "u", "r", " ", "M", "O", "Q", "?">>
    @@ "your moq??" :> <<"y", "o", "u", "r", " ", "m", "o", "q", "?", "?">>
    @@ "Market Size?" :> <<"M", "a", "r", "k", "e", "t", " ", "S", "i", "z", "e", "?">>
    @@ "Lead time?" :> <<"L", "e", "a", "d", " ", "t", "i", "m", "e", "?">>
    @@ "  " :> <<" ", " ">>
    @@ "" :> <<>>
    @@ "ok" :> <<"o", "k">>
    @@ "turnaround time" :> <<"t", "u", "r", "n", "a", "r", "o", "u", "n", "d", " ", "t", "i", "m", "e">>
    @@ "supply capacity" :> <<"s", "u", "p", "p", "l", "y", " ", "c", "a", "p", "a", "c", "i", "t", "y">>
    @@ "present demand" :> <<"p", "r", "e", "s", "e", "n", "t", " ", "d", "e", "m", "a", "n", "d">>
    @@ "expected demand" :> <<"e", "x", "p", "e", "c", "t", "e", "d", " ", "d", "e", "m", "a", "n", "d">>
    @@ "future demand" :> <<"f", "u", "t", "u", "r", "e", " ", "d", "e", "m", "a", "n", "d">>
    @@ "market forecast" :> <<"m", "a", "r", "k", "e", "t", " ", "f", "o", "r", "e", "c", "a", "s", "t">>
    @@ "how much future demand" :> <<"h", "o", "w", " ", "m", "u", "c", "h", " ", "f", "u", "t", "u", "r", "e", " ", "d", "e", "m", "a", "n", "d">>
    @@ "how much demand" :> <<"h", "o", "w", " ", "m", "u", "c", "h", " ", "d", "e", "m", "a", "n", "d">>
    @@ "estimate future sales" :> <<"e", "s", "t", "i", "m", "a", "t", "e", " ", "f", "u", "t", "u", "r", "e", " ", "s", "a", "l", "e", "s">>
    @@ "foresee any increase in demand" :> <<"f", "o", "r", "e", "s", "e", "e", " ", "a", "n", "y", " ", "i", "n", "c", "r", "e", "a", "s", "e", " ", "i", "n", " ", "d", "e", "m", "a", "n", "d">>
    @@ "market size" :> <<"m", "a", "r", "k", "e", "t", " ", "s", "i", "z", "e">>
    @@ "current market size" :> <<"c", "u", "r", "r", "e", "n", "t", " ", "m", "a", "r", "k", "e", "t", " ", "s", "i", "z", "e">>
    @@ "future market size" :> <<"f", "u", "t", "u", "r", "e", " ", "m", "a", "r", "k", "e", "t", " ", "s", "i", "z", "e">>

Chars(s) == CharTable[s]

\* The text whose characters are cs.
Str(cs) == CHOOSE s \in DOMAIN CharTable : CharTable[s] = cs

UpperCase == <<"A","B","C","D","E","F","G","H","I","J","K","L","M",
               "N","O","P","Q","R","S","T","U","V","W","X","Y","Z">>
LowerCase == <<"a","b","c","d","e","f","g","h","i","j","k","l","m",
               "n","o","p","q","r","s","t","u","v","w","x","y","z">>

\* str.lower() on one character and on a character sequence.
LowerChar(c) ==
    IF \E i \in 1..Len(UpperCase) : UpperCase[i] = c
    THEN LowerCase[CHOOSE i \in 1..Len(UpperCase) : UpperCase[i] = c]
    ELSE c

lower(cs) == [i \in 1..Len(cs) |-> LowerChar(cs[i])]

\* str.strip(): leading and trailing whitespace removed.
IsSpace(c) == c = " "

RECURSIVE lstrip(_)
lstrip(cs) == IF cs # <<>> /\ IsSpace(Head(cs)) THEN lstrip(Tail(cs)) ELSE cs

RECURSIVE rstrip(_)
rstrip(cs) ==
    IF cs # <<>> /\ IsSpace(cs[Len(cs)]) THEN rstrip(SubSeq(cs, 1, Len(cs) - 1)) ELSE cs

strip(cs) == rstrip(lstrip(cs))

\* Python's "needle in hay" on strings: needle is a contiguous substring.
Contains(hay, needle) ==
    \E i \in 0..(Len(hay) - Len(needle)) : SubSeq(hay, i + 1, i + Len(needle)) = needle

\* --------------------------------------------------------------------------
\* Question validator (src/app.py 93-115)
\* --------------------------------------------------------------------------
forbidden_phrases ==
    << "expected demand", "future demand", "market forecast",
       "how much future demand", "how much demand", "estimate future sales",
       "foresee any increase in demand", "market size", "current market size",
       "future market size" >>

\* Line 107 without .lower(), on the characters of a text.
phrase_in_text_case_sensitive(cs) ==
    \E n \in 1..Len(forbidden_phrases) :
        Contains(cs, Chars(forbidden_phrases[n]))

\* any(phrase in question.lower() for phrase in forbidden_phrases) (107), on
\* the characters of the question.
phrase_in_text(cs) ==
    \E n \in 1..Len(forbidden_phrases) :
        Contains(lower(cs), Chars(forbidden_phrases[n]))

any_phrase_in(question) == phrase_in_text(Chars(question))

\* The test of line 107 tabulated once for every text of CharTable.
ForbiddenTable == [q \in DOMAIN CharTable |-> any_phrase_in(q)] @@ <<>>

\* Line 107 without .lower(): the phrases are matched case-sensitively.
is_forbidden_case_sensitive(question) ==
    \E n \in 1..Len(forbidden_phrases) :
        Contains(Chars(question), Chars(forbidden_phrases[n]))

\* is_forbidden (106-107)
is_forbidden(question) == ForbiddenTable[question]

\* difflib.SequenceMatcher as fuzz.ratio uses it when python-Levenshtein is
\* not installed (no junk; indices 0-based, ranges half-open as in Python).
\* For the texts of Questions the Levenshtein-based ratio gives the same
\* verdicts against the threshold.
RECURSIVE CommonPrefix(_, _, _, _, _, _)
CommonPrefix(a, i, ahi, b, j, bhi) ==
    IF i < ahi /\ j < bhi /\ a[i + 1] = b[j + 1]
    THEN 1 + CommonPrefix(a, i + 1, ahi, b, j + 1, bhi)
    ELSE 0

SetMax(S) == CHOOSE x \in S : \A y \in S : y <= x
SetMin(S) == CHOOSE x \in S : \A y \in S : x <= y

\* The longest block a[i:i+k] = b[j:j+k] within the ranges, earliest in a and
\* then earliest in b; <<alo, blo, 0>> when nothing matches.
find_longest_match(a, alo, ahi, b, blo, bhi) ==
    LET pos  == (alo..(ahi - 1)) \X (blo..(bhi - 1))
        size == [p \in pos |-> CommonPrefix(a, p[1], ahi, b, p[2], bhi)]
        k    == IF pos = {} THEN 0 ELSE SetMax({size[p] : p \in pos})
        i    == SetMin({p[1] : p \in {q \in pos : size[q] = k}})
        j    == SetMin({p[2] : p \in {q \in pos : size[q] = k /\ q[1] = i}})
    IN  IF k = 0 THEN <<alo, blo, 0>> ELSE <<i, j, k>>

\* Sum of the sizes of get_matching_blocks().
RECURSIVE matching_size(_, _, _, _, _, _)
matching_size(a, alo, ahi, b, blo, bhi) ==
    LET m == find_longest_match(a, alo, ahi, b, blo, bhi)
    IN  IF m[3] = 0 THEN 0
        ELSE m[3] + matching_size(a, alo, m[1], b, blo, m[2])
                  + matching_size(a, m[1] + m[3], ahi, b, m[2] + m[3], bhi)

\* int(round(100 * 2.0 * M / T)), Python 3 rounding (ties to even).
intr_ratio(M, T) ==
    LET n == 200 * M
        q == n \div T
        r == n % T
    IN  IF 2 * r > T THEN q + 1
        ELSE IF 2 * r < T THEN q
        ELSE IF q % 2 = 0 THEN q ELSE q + 1

\* fuzz.ratio(s1, s2): 100 for equal strings, 0 when one is empty, else the
\* SequenceMatcher ratio as an integer percentage.
fuzz_ratio(s1, s2) ==
    IF s1 = s2 THEN 100
    ELSE IF Len(s1) = 0 \/ Len(s2) = 0 THEN 0
    ELSE intr_ratio(matching_size(s1, 0, Len(s1), s2, 0, Len(s2)), Len(s1) + Len(s2))

\* Every text that can be stored as an assistant question.
Questions ==
    { "What is your product and what does it do?",
      "Thank you. That's all the questions we needed for now.",
      "Your MOQ?", "your moq??", "Market Size?", "Lead time?", "" }

\* fuzz.ratio(item.question.lower(), question.lower()) (112), tabulated once
\* for the texts of Questions.
Similarity ==
    [p \in Questions \X Questions |->
        fuzz_ratio(lower(Chars(p[1])), lower(Chars(p[2])))] @@ <<>>

threshold == 80

\* is_duplicate (109-115)
is_duplicate(question, qa_items) ==
    \E n \in 1..Len(qa_items) :
        /\ qa_items[n].role = "assistant"
        /\ Similarity[<<qa_items[n].question, question>>] >= threshold

\* --------------------------------------------------------------------------
\* Question generator (src/app.py 118-150)
\* --------------------------------------------------------------------------
SYSTEM_PROMPT == "SYSTEM_PROMPT"
RETRY_CLAUSE  == "Avoid forbidden topics ... Ask only useful, new questions."
FALLBACK      == "Thank you. That's all the questions we needed for now."
FIRST_QUESTION == "What is your product and what does it do?"
NEXT_QUESTION_PROMPT == "Based on the previous Q&A, ask the next most relevant question ..."
NoText == "<none>"

\* The four topics the prompt of lines 213-220 tells the model to cover.
MandatoryTopics ==
    <<"turnaround time", "supply capacity", "present demand", "expected demand">>

\* What the model service may answer to one call: an error (the call raises)
\* or a completion text, before generate_response strips it.  Completions is
\* the vocabulary of the service in conversations of full length,
\* TurnCompletions the wider one explored in short conversations.
Completions     == { " Your MOQ? ", "Market Size?" }
TurnCompletions == { " Your MOQ? ", "your moq??", "Market Size?", "Lead time?", "  " }
ModelError  == [ok |-> FALSE, content |-> NoText]
NoReply     == [ok |-> FALSE, content |-> "<no call>"]
RepliesOf(completions) ==
    {ModelError} \cup {[ok |-> TRUE, content |-> c] : c \in completions}

\* content.strip() (126), tabulated once for every text of CharTable.
StripTable == [s \in DOMAIN CharTable |-> Str(strip(Chars(s)))] @@ <<>>

\* generate_response (119-126): the stripped content of the completion.
generate_response(reply) == StripTable[reply.content]

\* The messages of one request: the system message (its content as the parts
\* concatenated) followed by the history.
Messages(system_parts, history) ==
    <<[role |-> "system", content |-> system_parts]>> \o history

\* ask_openai with the check of line 147 lost: the second candidate is
\* returned whatever it is.
ask_openai_retry_unchecked(prompt, history, qa_items, r1, r2) ==
    LET messages       == Messages(<<SYSTEM_PROMPT>>, history)
        retry_messages == Messages(<<SYSTEM_PROMPT, RETRY_CLAUSE>>, history)
        first          == generate_response(r1)
        second         == generate_response(r2)
        req1 == [messages |-> messages, temperature |-> "0.7"]
        req2 == [messages |-> retry_messages, temperature |-> "0.3"]
    IN  IF ~r1.ok
        THEN [status |-> "raised", question |-> NoText, calls |-> 1,
              requests |-> <<req1>>]
        ELSE IF ~(is_forbidden(first) \/ is_duplicate(first, qa_items))
        THEN [status |-> "returned", question |-> first, calls |-> 1,
              requests |-> <<req1>>]
        ELSE IF ~r2.ok
        THEN [status |-> "raised", question |-> NoText, calls |-> 2,
              requests |-> <<req1, req2>>]
        ELSE [status |-> "returned", question |-> second, calls |-> 2,
              requests |-> <<req1, req2>>]

\* ask_openai(prompt, history, qa_items), given the replies r1 and r2 the model
\* service gives to the first and to the second call.  status is "raised" when
\* a call fails; calls counts the calls made; requests are the messages sent.
ask_openai(prompt, history, qa_items, r1, r2) ==
    LET messages       == Messages(<<SYSTEM_PROMPT>>, history)
        retry_messages == Messages(<<SYSTEM_PROMPT, RETRY_CLAUSE>>, history)
        first          == generate_response(r1)
        second         == generate_response(r2)
        req1 == [messages |-> messages, temperature |-> "0.7"]
        req2 == [messages |-> retry_messages, temperature |-> "0.3"]
    IN  IF ~r1.ok
        THEN [status |-> "raised", question |-> NoText, calls |-> 1,
              requests |-> <<req1>>]
        ELSE IF ~(is_forbidden(first) \/ is_duplicate(first, qa_items))
        THEN [status |-> "returned", question |-> first, calls |-> 1,
              requests |-> <<req1>>]
        ELSE IF ~r2.ok
        THEN [status |-> "raised", question |-> NoText, calls |-> 2,
              requests |-> <<req1, req2>>]
        ELSE IF is_forbidden(second) \/ is_duplicate(second, qa_items)
        THEN [status |-> "returned", question |-> FALLBACK, calls |-> 2,
              requests |-> <<req1, req2>>]
        ELSE [status |-> "returned", question |-> second, calls |-> 2,
              requests |-> <<req1, req2>>]

\* --------------------------------------------------------------------------
\* State
\* --------------------------------------------------------------------------
MaxQuestions == 10

\* Bounds of the model: the user stops after MaxUserItems stored answers
\* (MaxTurnUserItems in the short conversations of SpecTurn), and the model
\* service fails at most MaxFailures times.
MaxUserItems == 11
MaxFailures  == 1
MaxTurnUserItems == 3

NoUuid == 0

VARIABLES
    session_chat_uuid,  \* session["chat_uuid"] of the browser session, NoUuid when absent
    chat_session,       \* table ChatSession: rows [id, session_uuid]
    qa_item,            \* table QAItem in id order: rows [chat_session_id, role, question, answer]
    request,            \* the last request served
    response,           \* the response to it
    replies,            \* the model replies consumed while serving it, in order
    requests,           \* the requests sent to the model service while serving it
    qa_before,          \* table QAItem as it was when that request arrived
    failures,           \* number of model calls that have failed so far
    probe,              \* a text given to is_forbidden on its own, and the result
    inflight,           \* the POST / requests served step by step: their local variables
    run                 \* the user answering without pause: the POSTs submitted so far

vars == <<session_chat_uuid, chat_session, qa_item, request, response, replies,
          requests, qa_before, failures, probe, inflight, run>>

\* request.form.get("answer"): absent, or the submitted text.
Forms ==
    { [present |-> FALSE, answer |-> NoText] } \cup
    { [present |-> TRUE, answer |-> a] : a \in {"", "  ", "ok"} }
NoForm == [present |-> FALSE, answer |-> NoText]

QAItem(chat_session_id, role, question, answer) ==
    [chat_session_id |-> chat_session_id, role |-> role,
     question |-> question, answer |-> answer]

\* get_chat_session (153-154): the rows with that session_uuid.
get_chat_session(rows, session_uuid) == {r \in rows : r.session_uuid = session_uuid}

\* create_chat_session (156-161): a row with a fresh uuid.
create_chat_session(rows) ==
    LET fresh == Cardinality(rows) + 1
    IN  [id |-> fresh, session_uuid |-> fresh]

\* index, lines 178-185: the chat session of the request, created when the
\* browser session names none or names one that is not stored.
open_chat_session(uuid, rows) ==
    IF uuid # NoUuid /\ get_chat_session(rows, uuid) # {}
    THEN CHOOSE r \in get_chat_session(rows, uuid) : TRUE
    ELSE create_chat_session(rows)

\* get_qa_history (163-164)
get_qa_history(table, cs) == SelectSeq(table, LAMBDA it : it.chat_session_id = cs.id)

\* build_history (166-173)
build_history(qa_items) ==
    [n \in 1..Len(qa_items) |->
        IF qa_items[n].role = "assistant"
        THEN [role |-> "assistant", content |-> qa_items[n].question]
        ELSE [role |-> "user", content |-> qa_items[n].answer]]

assistant_items(qa_items) == SelectSeq(qa_items, LAMBDA it : it.role = "assistant")
user_items(qa_items)      == SelectSeq(qa_items, LAMBDA it : it.role = "user")

\* "not user_answer or user_answer.strip() == ''" (192)
is_blank(form) ==
    \/ ~form.present
    \/ form.answer = ""
    \/ strip(Chars(form.answer)) = <<>>

Render(template, question, qa_log) ==
    [status |-> 200, body |-> template, question |-> question, qa_log |-> qa_log]
Redirect(target) ==
    [status |-> 302, body |-> target, question |-> NoText, qa_log |-> <<>>]
NotFound ==
    [status |-> 404, body |-> "No conversation found.", question |-> NoText, qa_log |-> <<>>]
ServerError ==
    [status |-> 500, body |-> "Internal Server Error", question |-> NoText, qa_log |-> <<>>]

NoProbe == [text |-> <<>>, done |-> FALSE, result |-> FALSE]

\* The requests that may be in flight together, and the local variables of
\* index() for one of them: pc is the place the request has reached.
Procs == {"first", "second"}
Idle ==
    [pc |-> "idle", cs |-> [id |-> NoUuid, session_uuid |-> NoUuid],
     qa_items |-> <<>>, history |-> <<>>, user_answer |-> NoText,
     next_question |-> NoText, status |-> "none"]
NoneInFlight == [p \in Procs |-> Idle]

\* The user has not started to answer without pause.
NoRun == [on |-> FALSE, posts |-> 0]

Init ==
    /\ session_chat_uuid = NoUuid
    /\ chat_session = {}
    /\ qa_item = <<>>
    /\ request = [method |-> "none", path |-> "none", form |-> NoForm]
    /\ response = [status |-> 0, body |-> "none", question |-> NoText, qa_log |-> <<>>]
    /\ replies = <<>>
    /\ requests = <<>>
    /\ qa_before = <<>>
    /\ failures = 0
    /\ probe = NoProbe
    /\ inflight = NoneInFlight
    /\ run = NoRun

\* The question index shows for a blank answer (193-199).
last_question(qa_items) ==
    LET a == assistant_items(qa_items)
        u == user_items(qa_items)
    IN  IF Len(u) < Len(a) THEN a[Len(u) + 1].question ELSE FIRST_QUESTION

\* The question index shows on GET for a non-empty transcript (238-243).
first_question(qa_items) ==
    LET a == assistant_items(qa_items)
        u == user_items(qa_items)
    IN  IF Len(u) < Len(a) THEN a[Len(u) + 1].question
        ELSE IF a # <<>> THEN a[Len(a)].question ELSE FIRST_QUESTION

\* Line 209 with the role filter lost: every item of the session is counted.
assistant_questions_count_any_role(table, cs) ==
    Len(SelectSeq(table, LAMBDA it : it.chat_session_id = cs.id))

\* Line 209 counting one assistant item too few (as a test "> 10" would).
assistant_questions_count_one_short(table, cs) ==
    Len(SelectSeq(table, LAMBDA it : it.chat_session_id = cs.id /\ it.role = "assistant")) - 1

\* The count query of line 209.
assistant_questions_count(table, cs) ==
    Len(SelectSeq(table, LAMBDA it : it.chat_session_id = cs.id /\ it.role = "assistant"))

\* POST / (177-229): form is the submitted form, r1 and r2 what the model
\* service answers to the first and to the second call of this request; a call
\* the request does not make has the reply NoReply.
PostIndex(form, r1, r2) ==
    LET cs       == open_chat_session(session_chat_uuid, chat_session)
        qa_items == get_qa_history(qa_item, cs)
        history  == build_history(qa_items)
    IN  /\ request' = [method |-> "POST", path |-> "/", form |-> form]
        /\ UNCHANGED <<probe, inflight>>
        /\ session_chat_uuid' = cs.session_uuid
        /\ chat_session' = chat_session \cup {cs}
        /\ qa_before' = qa_item
        /\ IF is_blank(form)
           THEN /\ r1 = NoReply /\ r2 = NoReply
                /\ qa_item' = qa_item
                /\ replies' = <<>>
                /\ requests' = <<>>
                /\ failures' = failures
                /\ response' = Render("index.html", last_question(qa_items), qa_items)
           ELSE LET user_qa   == QAItem(cs.id, "user", "", form.answer)
                    table1    == Append(qa_item, user_qa)
                    qa_items1 == get_qa_history(table1, cs)
                    history1  == Append(history, [role |-> "user", content |-> form.answer])
                    gen       == ask_openai(NEXT_QUESTION_PROMPT, history1, qa_items1, r1, r2)
                IN  IF assistant_questions_count(table1, cs) >= MaxQuestions
                    THEN /\ r1 = NoReply /\ r2 = NoReply
                         /\ qa_item' = table1
                         /\ replies' = <<>>
                         /\ requests' = <<>>
                         /\ failures' = failures
                         /\ response' = Redirect("/complete")
                    ELSE /\ r1 # NoReply
                         /\ (r2 # NoReply) <=> (gen.calls = 2)
                         /\ replies' = SubSeq(<<r1, r2>>, 1, gen.calls)
                         /\ requests' = gen.requests
                         /\ IF gen.status = "raised"
                            THEN /\ qa_item' = table1
                                 /\ failures' = failures + 1
                                 /\ response' = ServerError
                            ELSE LET assistant_qa ==
                                         QAItem(cs.id, "assistant", gen.question, "")
                                     table2 == Append(table1, assistant_qa)
                                 IN  /\ qa_item' = table2
                                     /\ failures' = failures
                                     /\ response' = Render("index.html", gen.question,
                                                           get_qa_history(table2, cs))

\* GET / (177-188, 231-245)
GetIndex ==
    LET cs       == open_chat_session(session_chat_uuid, chat_session)
        qa_items == get_qa_history(qa_item, cs)
    IN  /\ request' = [method |-> "GET", path |-> "/", form |-> NoForm]
        /\ UNCHANGED <<probe, inflight, run>>
        /\ session_chat_uuid' = cs.session_uuid
        /\ chat_session' = chat_session \cup {cs}
        /\ qa_before' = qa_item
        /\ replies' = <<>>
        /\ requests' = <<>>
        /\ failures' = failures
        /\ IF qa_items = <<>>
           THEN LET assistant_qa == QAItem(cs.id, "assistant", FIRST_QUESTION, "")
                    table1 == Append(qa_item, assistant_qa)
                IN  /\ qa_item' = table1
                    /\ response' = Render("index.html", FIRST_QUESTION,
                                          get_qa_history(table1, cs))
           ELSE /\ qa_item' = qa_item
                /\ response' = Render("index.html", first_question(qa_items), qa_items)

\* GET /complete (247-258)
GetComplete ==
    /\ request' = [method |-> "GET", path |-> "/complete", form |-> NoForm]
    /\ UNCHANGED <<probe, inflight, run>>
    /\ qa_before' = qa_item
    /\ replies' = <<>>
    /\ requests' = <<>>
    /\ UNCHANGED <<session_chat_uuid, chat_session, qa_item, failures>>
    /\ IF session_chat_uuid = NoUuid
       THEN response' = NotFound
       ELSE IF get_chat_session(chat_session, session_chat_uuid) = {}
       THEN response' = NotFound
       ELSE LET cs == CHOOSE r \in get_chat_session(chat_session, session_chat_uuid) : TRUE
            IN  response' = Render("complete.html", NoText, get_qa_history(qa_item, cs))

\* A POST whose answer is missing, empty or blank.
PostBlank ==
    /\ \E form \in {f \in Forms : is_blank(f)} : PostIndex(form, NoReply, NoReply)
    /\ UNCHANGED run

\* A POST with an answer, the model service answering from the given replies;
\* the user stores at most max_users answers and the service fails at most
\* MaxFailures times.
Answer(model_replies, max_users) ==
    \E form \in {f \in Forms : ~is_blank(f)} :
        \E r1 \in model_replies \cup {NoReply}, r2 \in model_replies \cup {NoReply} :
            /\ Len(user_items(qa_item)) < max_users
            /\ PostIndex(form, r1, r2)
            /\ failures' <= MaxFailures

PostAnswer == Answer(RepliesOf(Completions), MaxUserItems) /\ UNCHANGED run

Next == GetIndex \/ PostBlank \/ PostAnswer \/ GetComplete

Spec == Init /\ [][Next]_vars

\* Short conversations with the wider vocabulary of the model service.
TurnAnswer == Answer(RepliesOf(TurnCompletions), MaxTurnUserItems) /\ UNCHANGED run

TurnNext == GetIndex \/ PostBlank \/ TurnAnswer \/ GetComplete

SpecTurn == Init /\ [][TurnNext]_vars

\* --------------------------------------------------------------------------
\* is_forbidden on its own: the text is drawn from ProbeTexts and the
\* function applied once.
\* --------------------------------------------------------------------------
UpperChar(c) ==
    IF \E i \in 1..Len(LowerCase) : LowerCase[i] = c
    THEN UpperCase[CHOOSE i \in 1..Len(LowerCase) : LowerCase[i] = c]
    ELSE c

upper(cs) == [i \in 1..Len(cs) |-> UpperChar(cs[i])]

capitalize(cs) == IF cs = <<>> THEN cs ELSE <<UpperChar(cs[1])>> \o Tail(cs)

\* What is put around a phrase: nothing, or the words of the examples
\* "What is your expected demand next year?" and
\* "What is your production capacity?".
ProbePrefixes ==
    { <<>>, <<"W", "h", "a", "t", " ", "i", "s", " ", "y", "o", "u", "r", " ">> }
ProbeSuffixes ==
    { <<>>, <<" ", "n", "e", "x", "t", " ", "y", "e", "a", "r", "?">>, <<"?">> }
ProductionCapacity ==
    <<"p", "r", "o", "d", "u", "c", "t", "i", "o", "n", " ",
      "c", "a", "p", "a", "c", "i", "t", "y">>

\* Every phrase of the denylist as written, in capitals, capitalized, with
\* its first or its last character missing; no phrase at all; and a phrase
\* that is not on the list.
ProbeCores ==
    LET phrases == {Chars(forbidden_phrases[n]) : n \in 1..Len(forbidden_phrases)}
    IN  phrases
        \cup {upper(p) : p \in phrases}
        \cup {capitalize(p) : p \in phrases}
        \cup {Tail(p) : p \in phrases}
        \cup {SubSeq(p, 1, Len(p) - 1) : p \in phrases}
        \cup {<<>>, ProductionCapacity}

ProbeTexts ==
    {pre \o core \o suf : pre \in ProbePrefixes, core \in ProbeCores, suf \in ProbeSuffixes}

ProbeInit ==
    /\ session_chat_uuid = NoUuid
    /\ chat_session = {}
    /\ qa_item = <<>>
    /\ request = [method |-> "none", path |-> "none", form |-> NoForm]
    /\ response = [status |-> 0, body |-> "none", question |-> NoText, qa_log |-> <<>>]
    /\ replies = <<>>
    /\ requests = <<>>
    /\ qa_before = <<>>
    /\ failures = 0
    /\ probe \in {[text |-> t, done |-> FALSE, result |-> FALSE] : t \in ProbeTexts}
    /\ inflight = NoneInFlight
    /\ run = NoRun

\* is_forbidden(probe.text) is evaluated.
Probe ==
    /\ ~probe.done
    /\ probe' = [probe EXCEPT !.done = TRUE, !.result = phrase_in_text(probe.text)]
    /\ UNCHANGED <<session_chat_uuid, chat_session, qa_item, request, response,
                   replies, requests, qa_before, failures, inflight, run>>

ProbeNext == Probe

SpecForbidden == ProbeInit /\ [][ProbeNext]_vars

\* --------------------------------------------------------------------------
\* POST / with an answer served step by step, two requests of one browser
\* session in flight together: every database read and every commit is a
\* step of its own, the model call lies between them.  The conversation has
\* been held one request at a time up to its last questions and the page has
\* been loaded again by GET /.
\* --------------------------------------------------------------------------
\* The k-th question of that conversation: the first question, a completion,
\* then the fallback sentence for every further question.
AskedQuestion(k) ==
    IF k = 1 THEN FIRST_QUESTION
    ELSE IF k = 2 THEN "Your MOQ?"
    ELSE FALLBACK

\* The transcript with k questions, all but the last one answered.
RECURSIVE AskedTranscript(_, _)
AskedTranscript(cs_id, k) ==
    IF k = 1 THEN <<QAItem(cs_id, "assistant", AskedQuestion(k), "")>>
    ELSE AskedTranscript(cs_id, k - 1)
             \o <<QAItem(cs_id, "user", "", "ok"),
                  QAItem(cs_id, "assistant", AskedQuestion(k), "")>>

\* The numbers of questions asked when the requests start to overlap.
AskedAtStart == {MaxQuestions - 2, MaxQuestions - 1}

AfterReload ==
    \E k \in AskedAtStart :
        LET cs    == create_chat_session({})
            table == AskedTranscript(cs.id, k)
        IN  /\ session_chat_uuid = cs.session_uuid
            /\ chat_session = {cs}
            /\ qa_item = table
            /\ request = [method |-> "GET", path |-> "/", form |-> NoForm]
            /\ response = Render("index.html", first_question(table), table)
            /\ replies = <<>>
            /\ requests = <<>>
            /\ qa_before = table
            /\ failures = 0
            /\ probe = NoProbe
            /\ inflight = NoneInFlight
            /\ run = NoRun
    /\ run = NoRun

Shared == <<session_chat_uuid, chat_session, request, response, replies, requests,
            qa_before, probe, run>>

\* Lines 178-192: the chat session is looked up, the transcript read, the
\* history built and the answer taken from the form.
Begin(p) ==
    /\ inflight[p].pc \in {"idle", "done"}
    /\ LET cs       == open_chat_session(session_chat_uuid, chat_session)
           qa_items == get_qa_history(qa_item, cs)
       IN  inflight' = [inflight EXCEPT ![p] =
               [Idle EXCEPT !.pc = "begun", !.cs = cs, !.qa_items = qa_items,
                            !.history = build_history(qa_items),
                            !.user_answer = "ok"]]
    /\ UNCHANGED <<Shared, qa_item, failures>>

\* Lines 202-204: the user item is committed.
CommitUser(p) ==
    /\ inflight[p].pc = "begun"
    /\ Len(user_items(qa_item)) < MaxUserItems
    /\ qa_item' = Append(qa_item,
                         QAItem(inflight[p].cs.id, "user", "", inflight[p].user_answer))
    /\ inflight' = [inflight EXCEPT ![p].pc = "user_committed"]
    /\ UNCHANGED <<Shared, failures>>

\* Lines 205-207: the transcript is read again, the answer joins the history.
ReadHistory(p) ==
    /\ inflight[p].pc = "user_committed"
    /\ inflight' = [inflight EXCEPT
           ![p].pc = "read",
           ![p].qa_items = get_qa_history(qa_item, inflight[p].cs),
           ![p].history = Append(inflight[p].history,
                                 [role |-> "user", content |-> inflight[p].user_answer])]
    /\ UNCHANGED <<Shared, qa_item, failures>>

\* Lines 209-211: the assistant items are counted.
Count(p) ==
    /\ inflight[p].pc = "read"
    /\ IF assistant_questions_count(qa_item, inflight[p].cs) >= MaxQuestions
       THEN inflight' = [inflight EXCEPT ![p].pc = "done", ![p].status = "redirect"]
       ELSE inflight' = [inflight EXCEPT ![p].pc = "asking"]
    /\ UNCHANGED <<Shared, qa_item, failures>>

\* Lines 213-223: the generator runs on the local history and qa_items.
Ask(p) ==
    /\ inflight[p].pc = "asking"
    /\ \E r1 \in RepliesOf(Completions), r2 \in RepliesOf(Completions) \cup {NoReply} :
           LET gen == ask_openai(NEXT_QUESTION_PROMPT, inflight[p].history,
                                 inflight[p].qa_items, r1, r2)
           IN  /\ (r2 # NoReply) <=> (gen.calls = 2)
               /\ IF gen.status = "raised"
                  THEN /\ failures < MaxFailures
                       /\ failures' = failures + 1
                       /\ inflight' = [inflight EXCEPT ![p].pc = "done",
                                                       ![p].status = "error"]
                  ELSE /\ failures' = failures
                       /\ inflight' = [inflight EXCEPT ![p].pc = "asked",
                                                       ![p].next_question = gen.question]
    /\ UNCHANGED <<Shared, qa_item>>

\* Lines 225-227: the assistant item is committed.
CommitAssistant(p) ==
    /\ inflight[p].pc = "asked"
    /\ qa_item' = Append(qa_item,
                         QAItem(inflight[p].cs.id, "assistant", inflight[p].next_question, ""))
    /\ inflight' = [inflight EXCEPT ![p].pc = "assistant_committed"]
    /\ UNCHANGED <<Shared, failures>>

\* Lines 228-229: the transcript is read and the page rendered.
Respond(p) ==
    /\ inflight[p].pc = "assistant_committed"
    /\ inflight' = [inflight EXCEPT
           ![p].pc = "done", ![p].status = "rendered",
           ![p].qa_items = get_qa_history(qa_item, inflight[p].cs)]
    /\ UNCHANGED <<Shared, qa_item, failures>>

ConcNext ==
    \E p \in Procs :
        \/ Begin(p)
        \/ CommitUser(p)
        \/ ReadHistory(p)
        \/ Count(p)
        \/ Ask(p)
        \/ CommitAssistant(p)
        \/ Respond(p)

SpecConc == AfterReload /\ [][ConcNext]_vars

\* --------------------------------------------------------------------------
\* The user answering without pause: after any short conversation the user
\* submits one answer after the other, every model call returns a completion,
\* until a POST is answered by the redirect to /complete.
\* --------------------------------------------------------------------------
Returned == {[ok |-> TRUE, content |-> c] : c \in Completions}

RunComplete ==
    /\ run.on
    /\ run.posts > 0
    /\ response = Redirect("/complete")

StartRun ==
    /\ ~run.on
    /\ run' = [on |-> TRUE, posts |-> 0]
    /\ UNCHANGED <<session_chat_uuid, chat_session, qa_item, request, response,
                   replies, requests, qa_before, failures, probe, inflight>>

RunPost ==
    /\ run.on
    /\ ~RunComplete
    /\ run.posts <= MaxQuestions + 1
    /\ Answer(Returned, MaxTurnUserItems + MaxQuestions + 1)
    /\ run' = [run EXCEPT !.posts = run.posts + 1]

\* Before that the user loads pages and answers a few questions.
BrowseAnswer == Answer(RepliesOf(Completions), MaxTurnUserItems) /\ UNCHANGED run

Browse ==
    /\ ~run.on
    /\ (GetIndex \/ PostBlank \/ BrowseAnswer \/ GetComplete)

ProgressNext == Browse \/ StartRun \/ RunPost

SpecProgress == Init /\ [][ProgressNext]_vars /\ WF_vars(RunPost)

\* --------------------------------------------------------------------------
\* Properties
\* --------------------------------------------------------------------------
AssistantCount(table) == Len(assistant_items(table))
UserCount(table)      == Len(user_items(table))

IsGetIndex  == request.method = "GET" /\ request.path = "/"
IsPost      == request.method = "POST" /\ request.path = "/"
IsAnswer    == IsPost /\ ~is_blank(request.form)
IsBlankPost == IsPost /\ is_blank(request.form)

\* The session began with GET /: the transcript opens with the first question.
GetFirst == qa_item # <<>> /\ qa_item[1].role = "assistant"

\* The conversation of the transcript has been moved to COMPLETE by a POST:
\* it holds 10 assistant items and an answer stored after the 10th.
Completed(table) ==
    /\ AssistantCount(table) = MaxQuestions
    /\ table[Len(table)].role = "user"

\* The question GET / returns for a stored transcript (231-243).
GetQuestion(table) == IF table = <<>> THEN FIRST_QUESTION ELSE first_question(table)

\* C1: after any sequence of requests served one at a time, the transcript
\* never holds more than 10 assistant items.
AssistantCountBounded_C1 == AssistantCount(qa_item) <= MaxQuestions

\* The 10th question is stored and a further answer has been submitted.
Witness_C1 ==
    /\ IsAnswer
    /\ AssistantCount(qa_before) = MaxQuestions
    /\ AssistantCount(qa_item) = MaxQuestions

\* C2: every non-empty transcript alternates assistant, user, assistant, ...
\* starting with an assistant item.
Alternates_C2 ==
    \A n \in 1..Len(qa_item) :
        qa_item[n].role = IF n % 2 = 1 THEN "assistant" ELSE "user"

\* C3: end to end.  GET / on a fresh session stores and returns the fixed first
\* question as the only item; an answer whose model calls succeed, given
\* before the 10th question exists, appends that answer and exactly one
\* assistant question; in a session begun with GET / and without failed calls
\* the 9th answer leaves 10 assistant items, and the 10th answer is appended
\* and redirected to /complete with no model call and no 11th assistant item.
EndToEnd_C3 ==
    /\ (IsGetIndex /\ qa_before = <<>>) =>
           /\ qa_item = <<QAItem(session_chat_uuid, "assistant", FIRST_QUESTION, "")>>
           /\ response = Render("index.html", FIRST_QUESTION, qa_item)
    /\ (IsAnswer /\ response.status = 200) =>
           /\ Len(replies) >= 1
           /\ qa_item = qa_before \o
                 << QAItem(session_chat_uuid, "user", "", request.form.answer),
                    QAItem(session_chat_uuid, "assistant", response.question, "") >>
    /\ (GetFirst /\ failures = 0 /\ UserCount(qa_item) < MaxQuestions) =>
           AssistantCount(qa_item) = UserCount(qa_item) + 1
    /\ (GetFirst /\ failures = 0 /\ UserCount(qa_item) >= MaxQuestions) =>
           AssistantCount(qa_item) = MaxQuestions
    /\ (IsAnswer /\ GetFirst /\ failures = 0 /\ UserCount(qa_item) = MaxQuestions) =>
           /\ response = Redirect("/complete")
           /\ replies = <<>>
           /\ qa_item = Append(qa_before,
                               QAItem(session_chat_uuid, "user", "", request.form.answer))

\* The 10th answer of such a session has just been redirected.
Witness_C3 ==
    /\ IsAnswer /\ GetFirst /\ failures = 0
    /\ UserCount(qa_item) = MaxQuestions
    /\ UserCount(qa_before) = MaxQuestions - 1
    /\ AssistantCount(qa_item) = MaxQuestions
    /\ response.status = 302

\* C4: once the transcript holds 10 assistant items, no request calls the
\* generator or appends an assistant item.
CompleteGeneratesNothing_C4 ==
    AssistantCount(qa_before) = MaxQuestions =>
        /\ replies = <<>>
        /\ assistant_items(qa_item) = assistant_items(qa_before)

\* An answer submitted to a transcript of 10 assistant items and 10 answers.
Witness_C4 ==
    /\ IsAnswer
    /\ AssistantCount(qa_before) = MaxQuestions
    /\ UserCount(qa_before) >= MaxQuestions
    /\ response.status = 302

\* C5: after a POST has moved the conversation to COMPLETE, no later request
\* changes the stored transcript.
CompleteIsFinal_C5 ==
    (qa_before # <<>> /\ Completed(qa_before)) => qa_item = qa_before

\* C6: in a complete conversation the assistant items equal the user items in
\* number or exceed them by exactly one.
CompleteCounts_C6 ==
    AssistantCount(qa_item) = MaxQuestions =>
        \/ AssistantCount(qa_item) = UserCount(qa_item)
        \/ AssistantCount(qa_item) = UserCount(qa_item) + 1

\* C7: a POST / whose answer is missing, empty or blank appends nothing, makes
\* no model call and returns the question GET / returns in that state.
BlankPostIdempotent_C7 ==
    IsBlankPost =>
        /\ qa_item = qa_before
        /\ replies = <<>>
        /\ response.status = 200
        /\ response.question = GetQuestion(qa_before)

\* The assistant item at position n of the table has no answer: no user item
\* follows it immediately.
Unanswered(table, n) ==
    /\ table[n].role = "assistant"
    /\ n = Len(table) \/ table[n + 1].role # "user"

\* C8: GET / on an empty transcript returns the fixed default; on a non-empty
\* transcript it changes nothing and returns the question of an assistant item
\* not yet answered, which is the assistant item at index (number of user
\* items) when the assistant items outnumber the user items.
PendingQuestion_C8 ==
    IsGetIndex =>
        IF qa_before = <<>>
        THEN response.question = FIRST_QUESTION
        ELSE /\ qa_item = qa_before
             /\ \E n \in 1..Len(qa_before) :
                    /\ Unanswered(qa_before, n)
                    /\ response.question = qa_before[n].question
             /\ UserCount(qa_before) < AssistantCount(qa_before) =>
                    response.question =
                        assistant_items(qa_before)[UserCount(qa_before) + 1].question

\* The qa_items the generator was given in the last request: the transcript
\* with the submitted answer appended.
GeneratorItems == SubSeq(qa_item, 1, Len(qa_before) + 1)

Admissible(reply) ==
    /\ ~is_forbidden(generate_response(reply))
    /\ ~is_duplicate(generate_response(reply), GeneratorItems)

\* C9: an invocation of the generator makes one model call and returns the
\* first candidate when it passes both checks; otherwise it makes exactly one
\* more call and returns the second candidate if that passes both checks, the
\* fallback sentence if not; it never makes a third call.
RetryPolicy_C9 ==
    replies # <<>> =>
        /\ Len(replies) <= 2
        /\ (replies[1].ok /\ Admissible(replies[1])) =>
               /\ Len(replies) = 1
               /\ response.status = 200
               /\ response.question = generate_response(replies[1])
        /\ (replies[1].ok /\ ~Admissible(replies[1])) =>
               /\ Len(replies) = 2
               /\ replies[2].ok =>
                      /\ response.status = 200
                      /\ response.question =
                             IF Admissible(replies[2])
                             THEN generate_response(replies[2])
                             ELSE FALLBACK

\* A first candidate that duplicates an earlier question without being
\* forbidden, a second one that is rejected too, and the fallback returned.
Witness_C9 ==
    /\ Len(replies) = 2
    /\ replies[1].ok /\ replies[2].ok
    /\ ~is_forbidden(generate_response(replies[1]))
    /\ is_duplicate(generate_response(replies[1]), GeneratorItems)
    /\ ~Admissible(replies[2])
    /\ response.question = FALLBACK

\* C10: when a model call fails during a POST with an answer, the stored
\* transcript is what it was before the request.
FailureKeepsTranscript_C10 ==
    (IsAnswer /\ response.status = 500) => qa_item = qa_before

IsGetComplete == request.method = "GET" /\ request.path = "/complete"

AssistantQuestions(table) ==
    {table[n].question : n \in {m \in 1..Len(table) : table[m].role = "assistant"}}

\* C11: once the fallback sentence is stored as an assistant item, a later
\* answer triggers no model call and no further assistant item.
SentinelEnds_C11 ==
    (IsAnswer /\ FALLBACK \in AssistantQuestions(qa_before)) =>
        /\ replies = <<>>
        /\ assistant_items(qa_item) = assistant_items(qa_before)

\* C12: GET /complete never changes the transcript; it returns the transcript
\* when the session has a stored conversation that is complete, and answers
\* not-found otherwise.
CompleteOnlyWhenComplete_C12 ==
    IsGetComplete =>
        /\ qa_item = qa_before
        /\ IF /\ session_chat_uuid # NoUuid
              /\ get_chat_session(chat_session, session_chat_uuid) # {}
              /\ AssistantCount(qa_item) >= MaxQuestions
           THEN response = Render("complete.html", NoText, qa_item)
           ELSE response = NotFound

\* C13: an assistant item has a non-empty question and an empty answer, a user
\* item a non-empty answer and an empty question.
OneFieldByRole_C13 ==
    \A n \in 1..Len(qa_item) :
        IF qa_item[n].role = "assistant"
        THEN qa_item[n].question # "" /\ qa_item[n].answer = ""
        ELSE qa_item[n].answer # "" /\ qa_item[n].question = ""

\* A question addresses a topic when it names it, in any letter case.
Addresses(question, topic) == Contains(lower(Chars(question)), Chars(topic))

\* C14: when a 10th assistant question exists, each of the four mandatory
\* topics is addressed by an assistant question asked before it.
TopicsCovered_C14 ==
    AssistantCount(qa_item) = MaxQuestions =>
        \A t \in 1..Len(MandatoryTopics) :
            \E n \in 1..(MaxQuestions - 1) :
                Addresses(assistant_items(qa_item)[n].question, MandatoryTopics[t])

\* C17: no stored assistant item contains a forbidden phrase, in any letter
\* case.
NoForbiddenStored_C17 ==
    \A q \in AssistantQuestions(qa_item) : ~any_phrase_in(q)

\* A forbidden first candidate was rejected and the second candidate stored.
Witness_C17 ==
    /\ Len(replies) = 2
    /\ replies[1].ok /\ replies[2].ok
    /\ any_phrase_in(generate_response(replies[1]))
    /\ response.status = 200
    /\ response.question = generate_response(replies[2])
    /\ qa_item[Len(qa_item)].question = response.question

\* C18: no two assistant items carry the same question text, compared
\* case-insensitively.
NoRepeatedQuestion_C18 ==
    \A i, j \in 1..Len(qa_item) :
        (i < j /\ qa_item[i].role = "assistant" /\ qa_item[j].role = "assistant") =>
            lower(Chars(qa_item[i].question)) # lower(Chars(qa_item[j].question))

\* C16: every request sent to the model has exactly one system message, the
\* first, whose content holds the fixed prompt and the instruction the
\* controller passes in, followed by the history of the transcript ending with
\* the submitted answer; the retry request differs only by the stricter clause
\* appended to the system message.
RequestContext_C16 ==
    replies # <<>> =>
        /\ Len(requests) = Len(replies)
        /\ \A k \in 1..Len(requests) :
               LET messages == requests[k].messages
                   parts    == messages[1].content
               IN  /\ messages[1].role = "system"
                   /\ \A n \in 2..Len(messages) : messages[n].role # "system"
                   /\ \E i \in 1..Len(parts) : parts[i] = SYSTEM_PROMPT
                   /\ \E i \in 1..Len(parts) : parts[i] = NEXT_QUESTION_PROMPT
                   /\ Tail(messages) = build_history(GeneratorItems)
                   /\ messages[Len(messages)] =
                          [role |-> "user", content |-> request.form.answer]
        /\ Len(requests) = 2 =>
               /\ requests[2].messages[1].content =
                      requests[1].messages[1].content \o <<RETRY_CLAUSE>>
               /\ Tail(requests[2].messages) = Tail(requests[1].messages)

\* The phrase occurs in the text at the offset, letter case aside.
OccursAt(text, phrase, offset) ==
    /\ offset + Len(phrase) <= Len(text)
    /\ \A k \in 1..Len(phrase) : LowerChar(text[offset + k]) = phrase[k]

ExpectedDemandNextYear ==
    <<"W", "h", "a", "t", " ", "i", "s", " ", "y", "o", "u", "r", " ">>
        \o Chars("expected demand")
        \o <<" ", "n", "e", "x", "t", " ", "y", "e", "a", "r", "?">>

\* C15: is_forbidden(text) is true exactly when some phrase of the denylist
\* occurs in the text, letter case aside, as a contiguous substring; it is
\* true of "What is your expected demand next year?" and false of "What is
\* your production capacity?"; evaluating it changes no stored state.
IsForbiddenExact_C15 ==
    probe.done =>
        /\ probe.result <=>
               \E n \in 1..Len(forbidden_phrases) :
                   \E offset \in 0..Len(probe.text) :
                       OccursAt(probe.text, Chars(forbidden_phrases[n]), offset)
        /\ probe.text = ExpectedDemandNextYear => probe.result
        /\ probe.text = (<<"W", "h", "a", "t", " ", "i", "s", " ", "y", "o", "u", "r", " ">>
                             \o ProductionCapacity \o <<"?">>) => ~probe.result
        /\ probe.text = <<>> => ~probe.result
        /\ qa_item = <<>> /\ chat_session = {} /\ session_chat_uuid = NoUuid

\* A phrase in capitals inside a longer text has been found forbidden.
Witness_C15 ==
    /\ probe.done
    /\ probe.result
    /\ probe.text # lower(probe.text)
    /\ Len(probe.text) > Len(Chars("foresee any increase in demand"))

\* C19: with two POST / requests of one conversation interleaving, the
\* transcript never holds more than 10 assistant items.
AssistantCountBoundedConcurrent_C19 == AssistantCount(qa_item) <= MaxQuestions

\* C20: when the user keeps submitting answers and every model call returns,
\* a POST is answered by the redirect to /complete after at most 11 POSTs,
\* and every POST before that one adds exactly one assistant item.
ProgressToComplete_C20 ==
    /\ [](run.on => run.posts <= MaxQuestions + 1)
    /\ [](run.on /\ run.posts > 0 =>
              IF RunComplete
              THEN qa_item = Append(qa_before, qa_item[Len(qa_item)])
                   /\ qa_item[Len(qa_item)].role = "user"
              ELSE /\ response.status = 200
                   /\ AssistantCount(qa_item) = AssistantCount(qa_before) + 1)
    /\ (run.on ~> RunComplete)

Witness_C20 == RunComplete /\ run.posts = MaxQuestions + 1

====
